---- MODULE Spec2Model ----
(***************************************************************************)
(* Model of spotify_player/src/state/ui.rs: the UI state of the player     *)
(* (window, popup, focus ring, cursors and the search filter).             *)
(*                                                                         *)
(* Option<T> is modelled as a sequence of length at most one: None is the  *)
(* empty sequence and Some(v) is <<v>>.  A tui ListState / TableState is   *)
(* modelled by the one field this file reads and writes, `selected`.       *)
(* Strings are sequences of one-character strings.                         *)
(***************************************************************************)
EXTENDS Integers, Sequences, FiniteSets, TLC

VARIABLES window,   \* UIState.window : WindowState
          popup,    \* UIState.popup  : PopupState
          items,    \* the item list handed to get_search_filtered_items
          trace,    \* the most recent calls: [op, arg, pre, ret]
          shadow,   \* per focus, the last index selected under that focus
          call,     \* the most recent get_search_filtered_items call
          is_running, \* UIState.is_running
          page,     \* UIState.page    : PageState
          history,  \* UIState.history : Vec<PageState>
          lock,     \* the mutex over the UIState: "free" or the actor holding it
          pc,       \* where each actor is in its critical section
          doing,    \* the mutation the event handler is carrying out
          seen,     \* what the renderer has read in its current frame
          applied   \* the UIState after the mutations processed so far

nav == <<is_running, page, history>>
conc == <<lock, pc, doing, seen, applied>>

vars == <<window, popup, items, trace, shadow, call, nav, conc>>

\* ---------------------------------------------------------------- bounds
MaxIdx == 1         \* cursor indices are 0..MaxIdx
MaxPopupItems == 1  \* items owned by an ArtistList / ThemeList popup
PopupQueryLen == 1  \* length of a query while the popup calls are explored
MaxQueryLen == 3    \* length of a query handed to the search filter
MaxItems == 2       \* items handed to the search filter
MaxHistory == 4     \* entries of the page history

\* ---------------------------------------------------------------- Option
None == << >>
Some(v) == <<v>>

Index == 0..MaxIdx
OptIndex == {None} \cup {Some(i) : i \in Index}

\* ---------------------------------------------- tui ListState / TableState
ListState_default == [selected |-> None]
ListState_select(state, index) == [state EXCEPT !.selected = index]
ListState_selected(state) == state.selected

\* ------------------------------------------------------- ArtistFocusState
ArtistFocusState == {"TopTracks", "Albums", "RelatedArtists"}

\* next() without the wrap-around pair [RelatedArtists, TopTracks]
ArtistFocusState_next_nowrap(self) ==
    CASE self = "TopTracks"      -> "Albums"
      [] self = "Albums"         -> "RelatedArtists"
      [] self = "RelatedArtists" -> "RelatedArtists"

ArtistFocusState_next(self) ==
    CASE self = "TopTracks"      -> "Albums"
      [] self = "Albums"         -> "RelatedArtists"
      [] self = "RelatedArtists" -> "TopTracks"

\* previous() reading the pairs in the direction next() reads them
ArtistFocusState_previous_forward(self) ==
    CASE self = "TopTracks"      -> "Albums"
      [] self = "Albums"         -> "RelatedArtists"
      [] self = "RelatedArtists" -> "TopTracks"

ArtistFocusState_previous(self) ==
    CASE self = "Albums"         -> "TopTracks"
      [] self = "RelatedArtists" -> "Albums"
      [] self = "TopTracks"      -> "RelatedArtists"

\* ------------------------------------------------------------ WindowState
WindowUnknown == [tag |-> "Unknown"]
WindowPlaylist(state) == [tag |-> "Playlist", state |-> state]
WindowAlbum(state) == [tag |-> "Album", state |-> state]
WindowArtist(top_tracks, albums, related_artists, focus) ==
    [tag |-> "Artist", top_tracks |-> top_tracks, albums |-> albums,
     related_artists |-> related_artists, focus |-> focus]

\* the values an external collaborator assigns: a fresh WindowState
FreshWindows ==
    { WindowUnknown,
      WindowPlaylist(ListState_default),
      WindowAlbum(ListState_default),
      WindowArtist(ListState_default, ListState_default, ListState_default,
                   "TopTracks") }

\* a handle is a reference to one cursor of the window: the field it points
\* at and the cursor found there
Handle(field, state) == [field |-> field, state |-> state]

\* get_track_table_state() with the Album arm left to the absent case
get_track_table_state_no_album(self) ==
    CASE self.tag = "Unknown"  -> None
      [] self.tag = "Playlist" -> Some(Handle("state", self.state))
      [] self.tag = "Album"    -> None
      [] self.tag = "Artist"   -> Some(Handle("top_tracks", self.top_tracks))

get_track_table_state(self) ==
    CASE self.tag = "Unknown"  -> None
      [] self.tag = "Playlist" -> Some(Handle("state", self.state))
      [] self.tag = "Album"    -> Some(Handle("state", self.state))
      [] self.tag = "Artist"   -> Some(Handle("top_tracks", self.top_tracks))

\* select() routing the Albums focus to the top-tracks cursor
select_misroutes(self, id) ==
    CASE self.tag = "Unknown"  -> self
      [] self.tag = "Playlist" ->
            [self EXCEPT !.state = ListState_select(@, id)]
      [] self.tag = "Album"    ->
            [self EXCEPT !.state = ListState_select(@, id)]
      [] self.tag = "Artist"   ->
            CASE self.focus = "TopTracks" ->
                    [self EXCEPT !.top_tracks = ListState_select(@, id)]
              [] self.focus = "Albums" ->
                    [self EXCEPT !.top_tracks = ListState_select(@, id)]
              [] self.focus = "RelatedArtists" ->
                    [self EXCEPT !.related_artists = ListState_select(@, id)]

select(self, id) ==
    CASE self.tag = "Unknown"  -> self
      [] self.tag = "Playlist" ->
            [self EXCEPT !.state = ListState_select(@, id)]
      [] self.tag = "Album"    ->
            [self EXCEPT !.state = ListState_select(@, id)]
      [] self.tag = "Artist"   ->
            CASE self.focus = "TopTracks" ->
                    [self EXCEPT !.top_tracks = ListState_select(@, id)]
              [] self.focus = "Albums" ->
                    [self EXCEPT !.albums = ListState_select(@, id)]
              [] self.focus = "RelatedArtists" ->
                    [self EXCEPT !.related_artists = ListState_select(@, id)]

\* selected() reading the top-tracks cursor whatever the focus
selected_ignores_focus(self) ==
    CASE self.tag = "Unknown"  -> None
      [] self.tag = "Playlist" -> ListState_selected(self.state)
      [] self.tag = "Album"    -> ListState_selected(self.state)
      [] self.tag = "Artist"   -> ListState_selected(self.top_tracks)

selected(self) ==
    CASE self.tag = "Unknown"  -> None
      [] self.tag = "Playlist" -> ListState_selected(self.state)
      [] self.tag = "Album"    -> ListState_selected(self.state)
      [] self.tag = "Artist"   ->
            CASE self.focus = "TopTracks" ->
                    ListState_selected(self.top_tracks)
              [] self.focus = "Albums" ->
                    ListState_selected(self.albums)
              [] self.focus = "RelatedArtists" ->
                    ListState_selected(self.related_artists)

\* next() that also resets the cursor of the focus it leaves
WindowState_next_resets(self) ==
    IF self.tag = "Artist"
    THEN [select(self, None) EXCEPT !.focus = ArtistFocusState_next(@)]
    ELSE self

WindowState_next(self) ==
    IF self.tag = "Artist"
    THEN [self EXCEPT !.focus = ArtistFocusState_next(@)]
    ELSE self

WindowState_previous(self) ==
    IF self.tag = "Artist"
    THEN [self EXCEPT !.focus = ArtistFocusState_previous(@)]
    ELSE self

\* ---------------------------------------------------------------- strings
Chars == {"a", "A", "b", " "}
ItemChars == {"A", "b"}

SeqsUpTo(S, n) == UNION {[1..k -> S] : k \in 0..n}

Strings(n) == SeqsUpTo(Chars, n)

\* the string forms of the displayed items: up to two letters, upper-case A
\* or lower-case b
ItemStrings == SeqsUpTo(ItemChars, 2)

char_to_lowercase(c) == IF c = "A" THEN "a" ELSE c

to_lowercase(s) == [i \in 1..Len(s) |-> char_to_lowercase(s[i])]

\* str::contains: pat occurs in s at some offset
contains(s, pat) ==
    \E off \in 0..(Len(s) - Len(pat)) :
        \A i \in 1..Len(pat) : s[off + i] = pat[i]

\* str::split(' '): the pieces between single spaces, empty pieces included
RECURSIVE split(_)
split(s) ==
    IF \A i \in 1..Len(s) : s[i] # " "
    THEN <<s>>
    ELSE LET k == CHOOSE i \in 1..Len(s) :
                      /\ s[i] = " "
                      /\ \A j \in 1..(i - 1) : s[j] # " "
         IN  <<SubSeq(s, 1, k - 1)>> \o split(SubSeq(s, k + 1, Len(s)))

\* ------------------------------------------------------------ PopupState
Artists == {"artist1", "artist2"}
Themes == {"theme1", "theme2"}

PopupNone == [tag |-> "None"]
PopupCommandHelp == [tag |-> "CommandHelp"]
PopupContextSearch(query) == [tag |-> "ContextSearch", query |-> query]
PopupPlaylistList(state) == [tag |-> "PlaylistList", state |-> state]
PopupDeviceList(state) == [tag |-> "DeviceList", state |-> state]
PopupArtistList(list, state) ==
    [tag |-> "ArtistList", items |-> list, state |-> state]
PopupThemeList(list, state) ==
    [tag |-> "ThemeList", items |-> list, state |-> state]

\* the values an external collaborator assigns: a fresh PopupState
FreshPopups(queryLen, listLen) ==
    {PopupNone, PopupCommandHelp,
     PopupPlaylistList(ListState_default), PopupDeviceList(ListState_default)}
    \cup {PopupContextSearch(q) : q \in Strings(queryLen)}
    \cup {PopupArtistList(l, ListState_default) :
              l \in SeqsUpTo(Artists, listLen)}
    \cup {PopupThemeList(l, ListState_default) :
              l \in SeqsUpTo(Themes, listLen)}

\* get_list_state() with the ThemeList arm left to the wildcard
get_list_state_no_theme(self) ==
    CASE self.tag = "DeviceList"   -> Some(self.state)
      [] self.tag = "PlaylistList" -> Some(self.state)
      [] self.tag = "ArtistList"   -> Some(self.state)
      [] OTHER                     -> None

get_list_state(self) ==
    CASE self.tag = "DeviceList"   -> Some(self.state)
      [] self.tag = "PlaylistList" -> Some(self.state)
      [] self.tag = "ArtistList"   -> Some(self.state)
      [] self.tag = "ThemeList"    -> Some(self.state)
      [] OTHER                     -> None

\* the mutable borrow: the field of the popup the reference points at
get_list_state_mut(self) ==
    CASE self.tag = "DeviceList"   -> Some("state")
      [] self.tag = "PlaylistList" -> Some("state")
      [] self.tag = "ArtistList"   -> Some("state")
      [] self.tag = "ThemeList"    -> Some("state")
      [] OTHER                     -> None

list_selected(self) ==
    IF get_list_state(self) = None
    THEN None
    ELSE ListState_selected(get_list_state(self)[1])

\* list_select() that closes a popup without a list instead of ignoring it
list_select_closes(self, id) ==
    IF get_list_state_mut(self) = None
    THEN PopupNone
    ELSE [self EXCEPT ![get_list_state_mut(self)[1]] = ListState_select(@, id)]

\* list_select() ignoring an index outside the owned items
list_select_checked(self, id) ==
    IF get_list_state_mut(self) = None
    THEN self
    ELSE IF /\ self.tag \in {"ArtistList", "ThemeList"}
            /\ id # None
            /\ id[1] >= Len(self.items)
         THEN self
         ELSE [self EXCEPT ![get_list_state_mut(self)[1]] =
                              ListState_select(@, id)]

list_select(self, id) ==
    IF get_list_state_mut(self) = None
    THEN self
    ELSE [self EXCEPT ![get_list_state_mut(self)[1]] = ListState_select(@, id)]

\* ---------------------------------------------------------- search filter
RECURSIVE fold_match(_, _, _)
fold_match(acc, tokens, s) ==
    IF tokens = << >>
    THEN acc
    ELSE fold_match(acc /\ contains(s, Head(tokens)), Tail(tokens), s)

\* query_match() folding with `|` from false: any token is enough
query_match_any(s, query) ==
    \E k \in 1..Len(split(query)) : contains(s, split(query)[k])

\* query_match() folding from false: nothing matches, not even no token
query_match_from_false(s, query) == fold_match(FALSE, split(query), s)

query_match(s, query) == fold_match(TRUE, split(query), s)

\* the result is a Vec<&T>: references into `list`, modelled as positions
RECURSIVE filter_from(_, _, _)
\* the filter pushing a matching item twice
RECURSIVE filter_from_twice(_, _, _)
filter_from_twice(list, i, query) ==
    IF i > Len(list)
    THEN << >>
    ELSE (IF query_match(to_lowercase(list[i]), query) THEN <<i, i>> ELSE << >>)
         \o filter_from_twice(list, i + 1, query)

filter_from(list, i, query) ==
    IF i > Len(list)
    THEN << >>
    ELSE (IF query_match(to_lowercase(list[i]), query) THEN <<i>> ELSE << >>)
         \o filter_from(list, i + 1, query)

\* the wildcard arm yielding nothing instead of every item
get_search_filtered_items_drops(self_popup, list) ==
    IF self_popup.tag = "ContextSearch"
    THEN filter_from(list, 1, self_popup.query)
    ELSE << >>

get_search_filtered_items(self_popup, list) ==
    IF self_popup.tag = "ContextSearch"
    THEN filter_from(list, 1, self_popup.query)
    ELSE [i \in 1..Len(list) |-> i]

\* -------------------------------------------------------------- PageState
Contexts == {"x", "y"}

PageDefault == [tag |-> "Default"]
PageBrowse(id) == [tag |-> "Browse", id |-> id]

Pages == {PageDefault} \cup {PageBrowse(id) : id \in Contexts}

\* ------------------------------------------------------------- UIState
UIState_default_is_running == TRUE

\* a default page that is not the entry the default history holds
UIState_default_page_browse == PageBrowse("x")

UIState_default_page == PageDefault

\* a default history with no entry
UIState_default_history_empty == << >>

UIState_default_history == <<PageDefault>>

UIState_default_window == WindowUnknown
UIState_default_popup == PopupNone

\* the part of the UIState the navigation calls change
Nav(p, h) == [page |-> p, history |-> h]

\* push(page): sets the page and appends it to the history
push(n, p) == Nav(p, Append(n.history, p))

\* pop() dropping the last entry even when it is the only one
pop_unguarded(n) ==
    LET h == SubSeq(n.history, 1, Len(n.history) - 1)
    IN  Nav(IF h = << >> THEN n.page ELSE h[Len(h)], h)

\* pop(): with more than one entry, drops the last and shows the new last
pop(n) ==
    IF Len(n.history) > 1
    THEN LET h == SubSeq(n.history, 1, Len(n.history) - 1)
         IN  Nav(h[Len(h)], h)
    ELSE n

\* ---------------------------------------------------------------- actors
\* the two actors that share the UIState behind its mutex
Actors == {"event", "render"}

\* std::sync::Mutex<UIState>: lock() goes through only while the mutex is free
mutex_is_free_always(l) == TRUE

mutex_is_free(l) == l = "free"

\* a MutexGuard that is dropped without giving the mutex back
guard_drop_leaks(l) == l

\* dropping the UIStateGuard frees the mutex
guard_drop(l) == "free"

Held == {"locked", "half", "done"}

NoOp == [name |-> "none"]
NoSnapshot == [read |-> "nothing"]

InitNav ==
    /\ is_running = UIState_default_is_running
    /\ page = UIState_default_page
    /\ history = UIState_default_history

InitConc ==
    /\ lock = "free"
    /\ pc = [a \in Actors |-> "idle"]
    /\ doing = NoOp
    /\ seen = NoSnapshot
    /\ applied = Nav(page, history)

\* ------------------------------------------------------------- call log
Unit == "()"
NoCall == [op |-> "none"]

LastN(s, n) == IF Len(s) <= n THEN s ELSE SubSeq(s, Len(s) - n + 1, Len(s))

Log(op, arg, pre, ret, n) ==
    trace' = LastN(Append(trace, [op |-> op, arg |-> arg, pre |-> pre,
                                  ret |-> ret]), n)

FreshShadow == [f \in ArtistFocusState |-> None]

Init ==
    /\ window = UIState_default_window
    /\ popup = UIState_default_popup
    /\ items = << >>
    /\ trace = << >>
    /\ shadow = FreshShadow
    /\ call = NoCall
    /\ InitNav
    /\ InitConc

\* ------------------------------------------------------- window actions
AssignWindow(n) ==
    \E w \in FreshWindows :
        /\ window' = w
        /\ shadow' = FreshShadow
        /\ Log("assign", w, window, Unit, n)
        /\ UNCHANGED <<popup, items, call, nav, conc>>

Select(n) ==
    \E id \in OptIndex :
        /\ window' = select(window, id)
        /\ shadow' = IF window.tag = "Artist"
                     THEN [shadow EXCEPT ![window.focus] = id]
                     ELSE shadow
        /\ Log("select", id, window, Unit, n)
        /\ UNCHANGED <<popup, items, call, nav, conc>>

Selected(n) ==
    /\ Log("selected", Unit, window, selected(window), n)
    /\ UNCHANGED <<window, popup, items, shadow, call, nav, conc>>

GetTrackTableState(n) ==
    /\ Log("get_track_table_state", Unit, window,
           get_track_table_state(window), n)
    /\ UNCHANGED <<window, popup, items, shadow, call, nav, conc>>

FocusNext(n) ==
    /\ window' = WindowState_next(window)
    /\ Log("next", Unit, window, Unit, n)
    /\ UNCHANGED <<popup, items, shadow, call, nav, conc>>

FocusPrevious(n) ==
    /\ window' = WindowState_previous(window)
    /\ Log("previous", Unit, window, Unit, n)
    /\ UNCHANGED <<popup, items, shadow, call, nav, conc>>

\* the window calls, remembering one full turn of the focus ring
RingSize == Cardinality(ArtistFocusState)

WindowNext ==
    \/ AssignWindow(RingSize)
    \/ Select(RingSize)
    \/ Selected(RingSize)
    \/ GetTrackTableState(RingSize)
    \/ FocusNext(RingSize)
    \/ FocusPrevious(RingSize)

SpecWindow == Init /\ [][WindowNext]_vars

\* -------------------------------------------------------- popup actions
AssignPopup(n, listLen) ==
    \E p \in FreshPopups(PopupQueryLen, listLen) :
        /\ popup' = p
        /\ Log("assign_popup", p, popup, Unit, n)
        /\ UNCHANGED <<window, items, shadow, call, nav, conc>>

ListSelect(n) ==
    \E id \in OptIndex :
        /\ popup' = list_select(popup, id)
        /\ Log("list_select", id, popup, Unit, n)
        /\ UNCHANGED <<window, items, shadow, call, nav, conc>>

ListSelected(n) ==
    /\ Log("list_selected", Unit, popup, list_selected(popup), n)
    /\ UNCHANGED <<window, popup, items, shadow, call, nav, conc>>

GetListState(n) ==
    /\ Log("get_list_state", Unit, popup, get_list_state(popup), n)
    /\ UNCHANGED <<window, popup, items, shadow, call, nav, conc>>

\* the popup calls, remembering the last two
PopupNext ==
    \/ AssignPopup(2, MaxPopupItems)
    \/ ListSelect(2)
    \/ ListSelected(2)
    \/ GetListState(2)

SpecPopup == Init /\ [][PopupNext]_vars

\* window and popup together, remembering the last call only; the list
\* popups are opened with no items
UINext ==
    \/ AssignWindow(1)
    \/ Select(1)
    \/ Selected(1)
    \/ GetTrackTableState(1)
    \/ FocusNext(1)
    \/ FocusPrevious(1)
    \/ AssignPopup(1, 0)
    \/ ListSelect(1)
    \/ ListSelected(1)
    \/ GetListState(1)

SpecUI == Init /\ [][UINext]_vars

\* ----------------------------------------------------- navigation actions
Push ==
    \E p \in Pages :
        /\ Len(history) < MaxHistory
        /\ page' = push(Nav(page, history), p).page
        /\ history' = push(Nav(page, history), p).history
        /\ applied' = Nav(page', history')
        /\ Log("push", p, Nav(page, history), Unit, 2)
        /\ UNCHANGED <<window, popup, items, shadow, call, is_running,
                       lock, pc, doing, seen>>

Pop ==
    /\ page' = pop(Nav(page, history)).page
    /\ history' = pop(Nav(page, history)).history
    /\ applied' = Nav(page', history')
    /\ Log("pop", Unit, Nav(page, history), Unit, 2)
    /\ UNCHANGED <<window, popup, items, shadow, call, is_running,
                   lock, pc, doing, seen>>

PageNext ==
    \/ Push
    \/ Pop

SpecPage == Init /\ [][PageNext]_vars

\* ------------------------------------------------------- the two actors
\* the event handler takes the next input: a push or a pop
EventRequest ==
    /\ pc["event"] = "idle"
    /\ \/ \E p \in Pages :
             /\ Len(history) < MaxHistory
             /\ doing' = [name |-> "push", arg |-> p]
       \/ doing' = [name |-> "pop"]
    /\ pc' = [pc EXCEPT !["event"] = "waiting"]
    /\ UNCHANGED <<window, popup, items, trace, shadow, call, nav,
                   lock, seen, applied>>

\* the renderer starts a frame
RenderRequest ==
    /\ pc["render"] = "idle"
    /\ pc' = [pc EXCEPT !["render"] = "waiting"]
    /\ UNCHANGED <<window, popup, items, trace, shadow, call, nav,
                   lock, doing, seen, applied>>

\* lock(): the actor gets the UIStateGuard
Acquire(a) ==
    /\ pc[a] = "waiting"
    /\ mutex_is_free(lock)
    /\ lock' = a
    /\ pc' = [pc EXCEPT ![a] = "locked"]
    /\ UNCHANGED <<window, popup, items, trace, shadow, call, nav,
                   doing, seen, applied>>

\* the first write of the mutation
EventBegin ==
    /\ pc["event"] = "locked"
    /\ \/ /\ doing.name = "push"
          /\ page' = doing.arg
          /\ UNCHANGED history
       \/ /\ doing.name = "pop"
          /\ Len(history) > 1
          /\ history' = SubSeq(history, 1, Len(history) - 1)
          /\ UNCHANGED page
    /\ pc' = [pc EXCEPT !["event"] = "half"]
    /\ UNCHANGED <<window, popup, items, trace, shadow, call, is_running,
                   lock, doing, seen, applied>>

\* the second write of the mutation
EventFinish ==
    /\ pc["event"] = "half"
    /\ \/ /\ doing.name = "push"
          /\ history' = Append(history, doing.arg)
          /\ UNCHANGED page
       \/ /\ doing.name = "pop"
          /\ page' = history[Len(history)]
          /\ UNCHANGED history
    /\ pc' = [pc EXCEPT !["event"] = "done"]
    /\ UNCHANGED <<window, popup, items, trace, shadow, call, is_running,
                   lock, doing, seen, applied>>

\* the mutation is complete: the guard goes out of scope
EventRelease ==
    /\ pc["event"] = "done"
    /\ lock' = guard_drop(lock)
    /\ applied' = IF doing.name = "push"
                  THEN push(applied, doing.arg)
                  ELSE pop(applied)
    /\ doing' = NoOp
    /\ pc' = [pc EXCEPT !["event"] = "idle"]
    /\ UNCHANGED <<window, popup, items, trace, shadow, call, nav, seen>>

\* pop() on a single entry returns early: the guard still goes out of scope
EventEarlyReturn ==
    /\ pc["event"] = "locked"
    /\ doing.name = "pop"
    /\ Len(history) <= 1
    /\ lock' = guard_drop(lock)
    /\ applied' = pop(applied)
    /\ doing' = NoOp
    /\ pc' = [pc EXCEPT !["event"] = "idle"]
    /\ UNCHANGED <<window, popup, items, trace, shadow, call, nav, seen>>

\* the renderer reads the page
RenderBegin ==
    /\ pc["render"] = "locked"
    /\ seen' = [read |-> "page", page |-> page]
    /\ pc' = [pc EXCEPT !["render"] = "half"]
    /\ UNCHANGED <<window, popup, items, trace, shadow, call, nav,
                   lock, doing, applied>>

\* the renderer reads the history
RenderFinish ==
    /\ pc["render"] = "half"
    /\ seen' = [read |-> "all", page |-> seen.page, history |-> history]
    /\ pc' = [pc EXCEPT !["render"] = "done"]
    /\ UNCHANGED <<window, popup, items, trace, shadow, call, nav,
                   lock, doing, applied>>

\* the frame is drawn: the guard goes out of scope
RenderRelease ==
    /\ pc["render"] = "done"
    /\ lock' = guard_drop(lock)
    /\ seen' = NoSnapshot
    /\ pc' = [pc EXCEPT !["render"] = "idle"]
    /\ UNCHANGED <<window, popup, items, trace, shadow, call, nav,
                   doing, applied>>

LockNext ==
    \/ EventRequest
    \/ RenderRequest
    \/ \E a \in Actors : Acquire(a)
    \/ EventBegin
    \/ EventFinish
    \/ EventRelease
    \/ EventEarlyReturn
    \/ RenderBegin
    \/ RenderFinish
    \/ RenderRelease

SpecLock == Init /\ [][LockNext]_vars

\* no operation blocks while it holds the mutex, and the scheduler lets a
\* waiting actor in: every step under the guard is weakly fair, taking the
\* mutex is strongly fair
LockFairness ==
    /\ WF_vars(EventBegin)
    /\ WF_vars(EventFinish)
    /\ WF_vars(EventRelease)
    /\ WF_vars(EventEarlyReturn)
    /\ WF_vars(RenderBegin)
    /\ WF_vars(RenderFinish)
    /\ WF_vars(RenderRelease)
    /\ \A a \in Actors : SF_vars(Acquire(a))

SpecLockFair == Init /\ [][LockNext]_vars /\ LockFairness

\* -------------------------------------------------------- search filter
\* the filter is a pure function of the popup and the item list: both are
\* drawn here and the call applies it
ItemLists == SeqsUpTo(ItemStrings, MaxItems)

\* the popups the filter is called under: a search with any query, or any
\* other popup with any cursor
FilterPopups ==
    {PopupContextSearch(q) : q \in Strings(MaxQueryLen)}
    \cup {list_select(p, id) : p \in FreshPopups(0, 0) \ {PopupContextSearch(<< >>)},
                              id \in OptIndex}

\* the windows and pages the pass-through is called under
FilterNavs == {Nav(UIState_default_page, UIState_default_history)}
              \cup {Nav(PageBrowse(id), <<PageDefault, PageBrowse(id)>>) :
                       id \in Contexts}

InitFilter ==
    /\ popup \in FilterPopups
    /\ items \in ItemLists
    /\ window \in IF popup.tag = "ContextSearch"
                  THEN {UIState_default_window}
                  ELSE FreshWindows
    /\ \E n \in IF popup.tag = "ContextSearch"
                 THEN {Nav(UIState_default_page, UIState_default_history)}
                 ELSE FilterNavs :
          /\ page = n.page
          /\ history = n.history
    /\ is_running = UIState_default_is_running
    /\ trace = << >>
    /\ shadow = FreshShadow
    /\ call = NoCall
    /\ InitConc

GetSearchFilteredItems ==
    /\ call' = [op |-> "get_search_filtered_items", popup |-> popup,
                items |-> items,
                ret |-> get_search_filtered_items(popup, items)]
    /\ UNCHANGED <<window, popup, items, trace, shadow, nav, conc>>

FilterNext == GetSearchFilteredItems

SpecFilter == InitFilter /\ [][FilterNext]_vars

\* ------------------------------------------------------------- call log
\* the k-th most recent call (1 = the last one)
Has(k) == Len(trace) >= k
Ago(k) == trace[Len(trace) - k + 1]
\* the window after the k-th most recent call
After(k) == IF k = 1 THEN window ELSE Ago(k - 1).pre


\* the focus ring as the specification draws it, and the cursor a focus names
Ring == ("TopTracks" :> "Albums") @@ ("Albums" :> "RelatedArtists")
        @@ ("RelatedArtists" :> "TopTracks")

FocusField == ("TopTracks" :> "top_tracks") @@ ("Albums" :> "albums")
              @@ ("RelatedArtists" :> "related_artists")

CursorOf(w, f) == CASE f = "TopTracks"      -> w.top_tracks
                    [] f = "Albums"         -> w.albums
                    [] f = "RelatedArtists" -> w.related_artists

\* the last k calls were all `op`, made on an Artist window
Run(op, k) ==
    /\ Has(k)
    /\ \A j \in 1..k : Ago(j).op = op
    /\ Ago(k).pre.tag = "Artist"

\* ------------------------------------------------------------------- C1
\* C1: next() maps TopTracks to Albums, Albums to RelatedArtists and
\* RelatedArtists to TopTracks, previous() is the reverse mapping, and from
\* every focus three consecutive next() (or previous()) calls return to the
\* starting focus while one or two calls never do.
C1_FocusRing ==
    /\ Run("next", 1) => window.focus = Ring[Ago(1).pre.focus]
    /\ Run("previous", 1) => Ring[window.focus] = Ago(1).pre.focus
    /\ \A op \in {"next", "previous"} :
          /\ Run(op, 1) => window.focus # Ago(1).pre.focus
          /\ Run(op, 2) => window.focus # Ago(2).pre.focus
          /\ Run(op, 3) => window.focus = Ago(3).pre.focus

C1_Witness ==
    /\ Run("previous", 3)
    /\ Ago(3).pre.focus = "Albums"
    /\ After(3).focus = "TopTracks"
    /\ After(2).focus = "RelatedArtists"
    /\ window.focus = "Albums"

\* ------------------------------------------------------------------- C2
\* C2: on every window, Artist or not, next() followed by previous() and
\* previous() followed by next() leave the window exactly as it was before
\* the two calls.
C2_NextPreviousIdentity ==
    Has(2) =>
        /\ (Ago(2).op = "next" /\ Ago(1).op = "previous")
              => window = Ago(2).pre
        /\ (Ago(2).op = "previous" /\ Ago(1).op = "next")
              => window = Ago(2).pre

C2_Witness ==
    /\ Has(2)
    /\ Ago(2).op = "previous"
    /\ Ago(1).op = "next"
    /\ Ago(2).pre.tag = "Artist"
    /\ Ago(2).pre.focus = "TopTracks"
    /\ Ago(1).pre.focus = "RelatedArtists"
    /\ window.focus = "TopTracks"

\* ------------------------------------------------------------------- C3
\* C3: next()/previous() change the window only when it is Artist: Unknown,
\* Playlist and Album are left as they were; on Artist the focus moves one
\* ring step and the variant and the three cursors are unchanged.
C3_FocusFrame ==
    (Has(1) /\ Ago(1).op \in {"next", "previous"}) =>
        LET pre == Ago(1).pre IN
        IF pre.tag # "Artist"
        THEN window = pre
        ELSE /\ window.tag = "Artist"
             /\ window.top_tracks = pre.top_tracks
             /\ window.albums = pre.albums
             /\ window.related_artists = pre.related_artists
             /\ Ago(1).op = "next" => window.focus = Ring[pre.focus]
             /\ Ago(1).op = "previous" => Ring[window.focus] = pre.focus

C3_Witness ==
    /\ Has(3)
    /\ Ago(3).op = "select"
    /\ Ago(3).arg = Some(1)
    /\ Ago(2).op = "next"
    /\ Ago(2).pre.tag = "Artist"
    /\ Ago(2).pre.focus = "RelatedArtists"
    /\ Ago(2).pre.related_artists.selected = Some(1)
    /\ Ago(1).op = "previous"
    /\ Ago(1).pre.focus = "TopTracks"
    /\ window.focus = "RelatedArtists"
    /\ window.related_artists.selected = Some(1)

\* ------------------------------------------------------------------- C4
\* C4: on every window that has a cursor (Playlist, Album, Artist under each
\* focus) and for every index value x, select(x) followed immediately by
\* selected() returns x.
C4_SelectRoundTrip ==
    (/\ Has(2)
     /\ Ago(2).op = "select"
     /\ Ago(2).pre.tag # "Unknown"
     /\ Ago(1).op = "selected") => Ago(1).ret = Ago(2).arg

C4_Witness ==
    /\ Has(2)
    /\ Ago(2).op = "select"
    /\ Ago(2).pre.tag = "Artist"
    /\ Ago(2).pre.focus = "RelatedArtists"
    /\ Ago(2).pre.top_tracks.selected = Some(0)
    /\ Ago(2).arg = Some(1)
    /\ Ago(1).op = "selected"
    /\ Ago(1).ret = Some(1)

\* ------------------------------------------------------------------- C5
\* C5: in an Artist window select(x) under focus f sets the cursor of f and
\* leaves the other two cursors and the focus unchanged; after any sequence
\* of select/next/previous calls selected() is the last value selected while
\* the focus was the current one (the cursor's initial value if none).
C5_CursorIndependence ==
    /\ (Has(1) /\ Ago(1).op = "select" /\ Ago(1).pre.tag = "Artist") =>
          LET pre == Ago(1).pre IN
          /\ window.tag = "Artist"
          /\ window.focus = pre.focus
          /\ CursorOf(window, pre.focus).selected = Ago(1).arg
          /\ \A g \in ArtistFocusState \ {pre.focus} :
                CursorOf(window, g) = CursorOf(pre, g)
    /\ window.tag = "Artist" =>
          CursorOf(window, window.focus).selected = shadow[window.focus]
    /\ (Has(1) /\ Ago(1).op = "selected" /\ Ago(1).pre.tag = "Artist") =>
          Ago(1).ret = shadow[Ago(1).pre.focus]

C5_Witness ==
    /\ Has(3)
    /\ Ago(3).op = "select"
    /\ Ago(3).pre.tag = "Artist"
    /\ Ago(3).pre.focus = "Albums"
    /\ Ago(3).arg = Some(1)
    /\ Ago(2).op = "previous"
    /\ Ago(1).op = "selected"
    /\ Ago(1).pre.focus = "TopTracks"
    /\ Ago(1).ret = None
    /\ window.albums.selected = Some(1)

\* ------------------------------------------------------------------- C6
ListTags == {"PlaylistList", "DeviceList", "ArtistList", "ThemeList"}

\* C6: on every list-bearing popup and for every index value x,
\* list_select(x) followed by list_selected() returns x, and list_select
\* changes the cursor only: the variant and the owned items are unchanged.
C6_ListSelectRoundTrip ==
    /\ (/\ Has(2)
        /\ Ago(2).op = "list_select"
        /\ Ago(2).pre.tag \in ListTags
        /\ Ago(1).op = "list_selected") => Ago(1).ret = Ago(2).arg
    /\ (Has(1) /\ Ago(1).op = "list_select" /\ Ago(1).pre.tag \in ListTags) =>
          /\ popup.tag = Ago(1).pre.tag
          /\ DOMAIN popup = DOMAIN Ago(1).pre
          /\ popup.state.selected = Ago(1).arg
          /\ popup.tag \in {"ArtistList", "ThemeList"}
                => popup.items = Ago(1).pre.items

C6_Witness ==
    /\ Has(2)
    /\ Ago(2).op = "list_select"
    /\ Ago(2).pre.tag = "ThemeList"
    /\ Len(Ago(2).pre.items) = 1
    /\ Ago(2).arg = Some(1)
    /\ Ago(1).op = "list_selected"
    /\ Ago(1).ret = Some(1)
    /\ popup.items = Ago(2).pre.items

\* ------------------------------------------------------------------- C7
NoListTags == {"None", "CommandHelp", "ContextSearch"}

\* C7: on a variant without a cursor the calls are silent no-ops: on an
\* Unknown window select(x) leaves the window unchanged and selected() is
\* None; on popup None, CommandHelp and ContextSearch(query) list_select(x)
\* leaves the popup (its query included) unchanged and list_selected() is
\* None, for every x and after any earlier calls.
C7_NoCursorNoOp ==
    Has(1) =>
        LET c == Ago(1) IN
        /\ (c.op = "select" /\ c.pre.tag = "Unknown") => window = c.pre
        /\ (c.op = "selected" /\ c.pre.tag = "Unknown") => c.ret = None
        /\ (c.op = "list_select" /\ c.pre.tag \in NoListTags)
              => popup = c.pre
        /\ (c.op = "list_selected" /\ c.pre.tag \in NoListTags)
              => c.ret = None

C7_Witness ==
    /\ Has(1)
    /\ Ago(1).op = "list_select"
    /\ Ago(1).arg = Some(1)
    /\ Ago(1).pre = PopupContextSearch(<<"A">>)
    /\ popup = PopupContextSearch(<<"A">>)
    /\ window.tag = "Artist"
    /\ window.albums.selected = Some(0)

\* ------------------------------------------------------------------- C8
\* C8 as stated: get_track_table_state is the currently active cursor: the
\* single cursor of Playlist and Album, for Artist the cursor the focus
\* selects (the one select/selected route to), and absent for Unknown.
C8_HandleFollowsFocus ==
    (Has(1) /\ Ago(1).op = "get_track_table_state") =>
        LET pre == Ago(1).pre IN
        CASE pre.tag = "Unknown" -> Ago(1).ret = None
          [] pre.tag \in {"Playlist", "Album"} ->
                Ago(1).ret = Some(Handle("state", pre.state))
          [] pre.tag = "Artist" ->
                Ago(1).ret = Some(Handle(FocusField[pre.focus],
                                         CursorOf(pre, pre.focus)))

\* C8 amended: get_track_table_state is the single cursor of Playlist and
\* Album, absent for Unknown, and for Artist always the top-tracks cursor
\* whatever the focus: it is the cursor select/selected route to only while
\* the focus is TopTracks.
C8_HandleIsTrackTable ==
    (Has(1) /\ Ago(1).op = "get_track_table_state") =>
        LET pre == Ago(1).pre IN
        CASE pre.tag = "Unknown" -> Ago(1).ret = None
          [] pre.tag \in {"Playlist", "Album"} ->
                Ago(1).ret = Some(Handle("state", pre.state))
          [] pre.tag = "Artist" ->
                /\ Ago(1).ret = Some(Handle("top_tracks", pre.top_tracks))
                /\ Ago(1).ret[1].field = FocusField[pre.focus]
                      <=> pre.focus = "TopTracks"

C8_Witness ==
    /\ Has(1)
    /\ Ago(1).op = "get_track_table_state"
    /\ Ago(1).pre.tag = "Artist"
    /\ Ago(1).pre.focus = "Albums"
    /\ Ago(1).pre.albums.selected = Some(1)
    /\ Ago(1).pre.top_tracks.selected = Some(0)
    /\ Ago(1).ret = Some(Handle("top_tracks", [selected |-> Some(0)]))

\* ------------------------------------------------------------------- C9
Called == call.op = "get_search_filtered_items"

\* the tokens of a query: its maximal runs without a space
Tokens(q) ==
    { SubSeq(q, i, j) : <<i, j>> \in
        { ij \in (1..(Len(q) + 1)) \X (0..Len(q)) :
            /\ ij[2] >= ij[1] - 1
            /\ \A k \in ij[1]..ij[2] : q[k] # " "
            /\ (ij[1] = 1 \/ q[ij[1] - 1] = " ")
            /\ (ij[2] = Len(q) \/ q[ij[2] + 1] = " ") } }

IsSubstring(t, s) ==
    \E i \in 1..(Len(s) + 1) : \E j \in 0..Len(s) : SubSeq(s, i, j) = t

MatchesAll(item, toks) == \A t \in toks : IsSubstring(t, to_lowercase(item))

\* C9: under ContextSearch(query) the filter returns exactly the items whose
\* lowercased string form contains every token of the query as a substring
\* (AND over the tokens, in any order), in the original order of the items.
C9_FilterExact ==
    (Called /\ call.popup.tag = "ContextSearch") =>
        LET toks == Tokens(call.popup.query) IN
        /\ \A k \in 1..Len(call.ret) : call.ret[k] \in 1..Len(call.items)
        /\ \A k \in 1..(Len(call.ret) - 1) : call.ret[k] < call.ret[k + 1]
        /\ \A i \in 1..Len(call.items) :
              (\E k \in 1..Len(call.ret) : call.ret[k] = i)
                 <=> MatchesAll(call.items[i], toks)

C9_Witness ==
    /\ Called
    /\ call.popup = PopupContextSearch(<<"a", " ", "b">>)
    /\ call.items = << <<"A">>, <<"b", "A">> >>
    /\ call.ret = <<2>>

\* ------------------------------------------------------------------ C10
\* C10: the filter matches case-insensitively: for every item list, two
\* queries that differ only in letter case give the same result.
C10_CaseInsensitive ==
    (Called /\ call.popup.tag = "ContextSearch") =>
        \A q \in Strings(MaxQueryLen) :
            to_lowercase(q) = to_lowercase(call.popup.query)
               => get_search_filtered_items(PopupContextSearch(q), call.items)
                     = call.ret

\* ------------------------------------------------------------------ C11
AllPositions(list) == [i \in 1..Len(list) |-> i]

\* C11: under ContextSearch with an empty query the filter returns every
\* item, in the original order, for every item list.
C11_EmptyQueryPassThrough ==
    (Called /\ call.popup = PopupContextSearch(<< >>))
        => call.ret = AllPositions(call.items)

C11_Witness ==
    /\ Called
    /\ call.popup = PopupContextSearch(<< >>)
    /\ call.items = << <<"b">>, << >> >>
    /\ call.ret = <<1, 2>>

\* ------------------------------------------------------------------ C12
\* C12: under every popup other than ContextSearch the filter returns all
\* items in their original order, whatever the items, the window, the page
\* and the cursors are.
C12_NoSearchPassThrough ==
    (Called /\ call.popup.tag # "ContextSearch")
        => /\ Len(call.ret) = Len(call.items)
           /\ \A i \in 1..Len(call.items) : call.ret[i] = i

C12_Witness ==
    /\ Called
    /\ call.popup = PopupDeviceList([selected |-> Some(1)])
    /\ window.tag = "Artist"
    /\ page = PageBrowse("y")
    /\ call.items = << <<"A", "b">>, <<"b">> >>
    /\ call.ret = <<1, 2>>

\* ------------------------------------------------------------------ C17
\* the positions are in range and strictly increasing: a subsequence
IsView(ret, list) ==
    /\ \A k \in 1..Len(ret) : ret[k] \in 1..Len(list)
    /\ \A k \in 1..Len(ret) : \A m \in 1..Len(ret) : k < m => ret[k] < ret[m]

\* C17: under every popup the filter call leaves the popup (its query
\* included), the window, the page, the history and the items unchanged, and
\* its result is a subsequence of the items: every element is one of the
\* items, no position appears twice and the relative order is kept.
C17_FilterReadOnlyView ==
    [][call' # call =>
          /\ UNCHANGED <<popup, window, page, history, is_running, items>>
          /\ call'.popup = popup
          /\ call'.items = items
          /\ IsView(call'.ret, items)]_vars

C17_Witness ==
    /\ Called
    /\ popup = PopupContextSearch(<<"b">>)
    /\ call.popup = popup
    /\ items = << <<"A">>, <<"A", "b">> >>
    /\ call.items = items
    /\ call.ret = <<2>>

\* ------------------------------------------------------------------ C13
\* C13: after any pushes and pops from the default UIState the history is
\* never empty and its first element is the Default page; the default
\* UIState has page Default, history [Default], popup None, window Unknown
\* and is_running true.
C13_HistoryRooted ==
    /\ Len(history) >= 1
    /\ history[1] = PageDefault
    /\ trace = << >> =>
          /\ page = PageDefault
          /\ history = <<PageDefault>>
          /\ popup = PopupNone
          /\ window = WindowUnknown
          /\ is_running = TRUE

C13_Witness ==
    /\ Has(2)
    /\ Ago(2).op = "pop"
    /\ Ago(2).pre.history = <<PageDefault, PageBrowse("x")>>
    /\ Ago(1).op = "pop"
    /\ Ago(1).pre.history = <<PageDefault>>
    /\ history = <<PageDefault>>

\* ------------------------------------------------------------------ C14
Last(h) == h[Len(h)]
Front(h) == [i \in 1..(Len(h) - 1) |-> h[i]]

\* C14: push(p) sets the page to p and appends p to the history; pop() with
\* more than one entry removes the last entry and sets the page to the new
\* last one; pop() on a single entry changes nothing; so push(p) then pop()
\* restores the prior page and history, and pop() never underflows.
C14_PushPop ==
    /\ (Has(1) /\ Ago(1).op = "push") =>
          /\ page = Ago(1).arg
          /\ history = Ago(1).pre.history \o <<Ago(1).arg>>
    /\ (Has(1) /\ Ago(1).op = "pop") =>
          IF Len(Ago(1).pre.history) > 1
          THEN /\ history = Front(Ago(1).pre.history)
               /\ page = Last(history)
          ELSE /\ history = Ago(1).pre.history
               /\ page = Ago(1).pre.page
    /\ (Has(2) /\ Ago(2).op = "push" /\ Ago(1).op = "pop") =>
          /\ page = Ago(2).pre.page
          /\ history = Ago(2).pre.history
    /\ history # << >>

C14_Witness ==
    /\ Has(2)
    /\ Ago(2).op = "push"
    /\ Ago(2).arg = PageBrowse("y")
    /\ Ago(2).pre = Nav(PageBrowse("x"), <<PageDefault, PageBrowse("x")>>)
    /\ Ago(1).op = "pop"
    /\ Ago(1).pre.page = PageBrowse("y")
    /\ page = PageBrowse("x")
    /\ history = <<PageDefault, PageBrowse("x")>>

\* ------------------------------------------------------------------ C19
\* C19: after any pushes and pops, and in the default UIState, the page is
\* the last element of the history.
C19_PageIsHistoryTop ==
    \E k \in 1..Len(history) :
        /\ k = Len(history)
        /\ history[k] = page

C19_Witness ==
    /\ Has(2)
    /\ Ago(2).op = "push"
    /\ Ago(1).op = "push"
    /\ Ago(1).arg = PageDefault
    /\ history = <<PageDefault, PageBrowse("y"), PageDefault>>
    /\ page = PageDefault

\* ------------------------------------------------------------------ C16
ItemTags == {"ArtistList", "ThemeList"}

InRange(p) ==
    p.state.selected # None => p.state.selected[1] < Len(p.items)

\* C16 as stated: with an empty ArtistList / ThemeList selecting an index is
\* a no-op and list_selected() is None, and a present cursor of these popups
\* is never an index outside the owned items.
C16_CursorWithinItems ==
    /\ (Has(1) /\ Ago(1).op = "list_select" /\ Ago(1).pre.tag \in ItemTags
          /\ Ago(1).pre.items = << >>) => popup = Ago(1).pre
    /\ (Has(1) /\ Ago(1).op = "list_selected" /\ Ago(1).pre.tag \in ItemTags
          /\ Ago(1).pre.items = << >>) => Ago(1).ret = None
    /\ popup.tag \in ItemTags => InRange(popup)

\* C16 amended: list_select on ArtistList / ThemeList stores the index it is
\* given whatever the owned items hold, an empty collection included, and
\* list_selected() then returns that index, in range or not; the items are
\* left as they were.
C16_CursorUnchecked ==
    (/\ Has(2)
     /\ Ago(2).op = "list_select"
     /\ Ago(2).pre.tag \in ItemTags
     /\ Ago(2).arg # None
     /\ Ago(2).arg[1] >= Len(Ago(2).pre.items)
     /\ Ago(1).op = "list_selected") =>
        /\ Ago(1).ret = Ago(2).arg
        /\ ~InRange(popup)
        /\ popup.items = Ago(2).pre.items

C16_Witness ==
    /\ Has(2)
    /\ Ago(2).op = "list_select"
    /\ Ago(2).pre = PopupArtistList(<< >>, ListState_default)
    /\ Ago(2).arg = Some(0)
    /\ Ago(1).op = "list_selected"
    /\ Ago(1).ret = Some(0)
    /\ popup = PopupArtistList(<< >>, [selected |-> Some(0)])

\* ------------------------------------------------------------------ C15
Holders == {a \in Actors : pc[a] \in Held}

\* C15: with the event handler writing and the renderer reading only under
\* the one mutex, at most one actor holds it at a time and the renderer
\* never reads a partly updated state: what it reads is the result of the
\* completed mutations, applied whole and in the order the event handler
\* processed them, and is the most recently committed state.
C15_ExclusiveConsistentReads ==
    /\ Cardinality(Holders) <= 1
    /\ Holders # {} => Holders = {lock}
    /\ "event" \notin Holders => Nav(page, history) = applied
    /\ pc["render"] = "half" => seen.page = applied.page
    /\ pc["render"] = "done" =>
          /\ Nav(seen.page, seen.history) = applied
          /\ Nav(seen.page, seen.history) = Nav(page, history)

C15_Witness ==
    /\ pc["render"] = "done"
    /\ pc["event"] = "waiting"
    /\ doing = [name |-> "pop"]
    /\ seen.page = PageBrowse("y")
    /\ seen.history = <<PageDefault, PageBrowse("x"), PageBrowse("y")>>
    /\ applied = Nav(seen.page, seen.history)

====
